---- MODULE Spec2Model ----
(***************************************************************************)
(* Model of src/main.py: one request through the FastAPI handlers          *)
(* read_root / analyze_post / analyze_get, i.e. render_dashboard calling   *)
(* fetch_github_data and analyze_with_gemini.                              *)
(*                                                                         *)
(* Representation of Python values.                                        *)
(*   - A Python str is a sequence of atoms; an atom is a TLA+ string that  *)
(*     stands for one character ("/") or an indivisible run of characters  *)
(*     that contains none of the separators searched for.                  *)
(*   - A value whose Python type varies is a one-field record whose field  *)
(*     name is the type: [none |-> TRUE], [str |-> s], [int |-> n],        *)
(*     [list |-> seq], [obj |-> function from keys to values].             *)
(*   - The text of a model response is a sequence of text tokens:          *)
(*     [ch |-> atom] for literal characters and [doc |-> v] for the        *)
(*     characters of one well-formed JSON document whose value is v.       *)
(***************************************************************************)
EXTENDS Integers, Sequences, FiniteSets, TLC

VARIABLES
    pc,               \* position of the request in the handler
    repo_url,         \* handler parameter (str)
    issue_number,     \* handler parameter (int)
    page,             \* handler parameter (int)
    owner,            \* fetch_github_data local
    repo,             \* fetch_github_data local
    http_log,         \* URLs passed to requests.get, in order
    issue_res,        \* fetch_github_data local
    comments_res,     \* fetch_github_data local
    issues_list_res,  \* fetch_github_data local
    fetch_ret,        \* (data, error) returned by fetch_github_data
    calls,            \* generate_content invocations, in order
    response,         \* analyze_with_gemini local
    primary_e,        \* analyze_with_gemini local: e of line 104
    fallback_e,       \* analyze_with_gemini local
    ai_response_json, \* value returned by analyze_with_gemini: [chars |-> text]
    safe_analysis,    \* render_dashboard local
    view              \* what the handler returned or raised

vars == <<pc, repo_url, issue_number, page, owner, repo, http_log, issue_res,
          comments_res, issues_list_res, fetch_ret, calls, response,
          primary_e, fallback_e, ai_response_json, safe_analysis, view>>

(***************************************************************************)
(* Bounds of the explored inputs.                                          *)
(***************************************************************************)
MaxUrlLen == 3
MaxPage == 2
MaxComments == 1
MaxIssues == 1
MaxModels == 1

None == [none |-> TRUE]

IsNone(v) == "none" \in DOMAIN v

Str(s) == [str |-> s]

\* All sequences over S of length at most n.
SeqsUpTo(S, n) == UNION {[1..k -> S] : k \in 0..n}

(***************************************************************************)
(* Python str helpers.                                                     *)
(***************************************************************************)
RECURSIVE rstrip(_, _)
rstrip(s, c) ==
    IF s # << >> /\ s[Len(s)] = c THEN rstrip(SubSeq(s, 1, Len(s) - 1), c) ELSE s

\* Index of the first occurrence of atom c in s, 0 when absent.
RECURSIVE find(_, _, _)
find(s, c, i) ==
    IF i > Len(s) THEN 0 ELSE IF s[i] = c THEN i ELSE find(s, c, i + 1)

RECURSIVE split(_, _)
split(s, c) ==
    LET i == find(s, c, 1)
    IN  IF i = 0 THEN <<s>>
        ELSE <<SubSeq(s, 1, i - 1)>> \o split(SubSeq(s, i + 1, Len(s)), c)

\* str(x) as used by the f-strings of the source.
format(v) ==
    IF "str" \in DOMAIN v THEN v.str
    ELSE IF "int" \in DOMAIN v THEN <<ToString(v.int)>>
    ELSE IF "none" \in DOMAIN v THEN <<"None">>
    ELSE IF "list" \in DOMAIN v THEN <<"[...]">>
    ELSE <<"{...}">>

\* Truth value of a Python object in `if x:`.
truthy(v) ==
    IF "none" \in DOMAIN v THEN FALSE
    ELSE IF "str" \in DOMAIN v THEN v.str # << >>
    ELSE TRUE

(***************************************************************************)
(* fetch_github_data                                                       *)
(***************************************************************************)
OK == 200

per_page == 30

\* Lines 37-38: parts[-2], parts[-1]; IndexError when there is one part.
parse_repo_url(url) ==
    LET parts == split(rstrip(url, "/"), "/")
    IN  IF Len(parts) < 2
        THEN [raised |-> <<"list index out of range">>]
        ELSE [owner |-> parts[Len(parts) - 1], repo |-> parts[Len(parts)]]

repos_url(o, r) == <<"https://api.github.com/repos/">> \o o \o <<"/">> \o r

issue_url(o, r, n) == repos_url(o, r) \o <<"/issues/", ToString(n)>>

comments_url(o, r, n) == issue_url(o, r, n) \o <<"/comments">>

issues_list_url(o, r, p) ==
    repos_url(o, r) \o <<"/issues?per_page=", ToString(per_page),
                         "&state=all&sort=updated&page=", ToString(p)>>

\* Lines 65-67.
RECURSIVE comment_lines(_)
comment_lines(cs) ==
    IF cs = << >> THEN << >>
    ELSE <<"Comment: ">> \o format(Head(cs).body) \o <<"\n">>
         \o comment_lines(Tail(cs))

full_text_of(issue_data, comments_data) ==
    <<"Title: ">> \o format(issue_data.title) \o <<"\n\nBody:\n">>
    \o format(issue_data.body) \o <<"\n\n">> \o comment_lines(comments_data)

\* Lines 57-79, after the three requests returned a response.
fetch_result(ires, cres, lres, o, r, p) ==
    IF ires.status # OK
    THEN [data |-> None,
          error |-> Str(<<"Error fetching issue: ", ToString(ires.status)>>)]
    ELSE IF "bad" \in DOMAIN ires.json
    THEN [data |-> None, error |-> Str(ires.json.bad)]
    ELSE IF cres.status = OK /\ "bad" \in DOMAIN cres.json
    THEN [data |-> None, error |-> Str(cres.json.bad)]
    ELSE IF lres.status = OK /\ "bad" \in DOMAIN lres.json
    THEN [data |-> None, error |-> Str(lres.json.bad)]
    ELSE LET issue_data == ires.json.obj
             comments_data == IF cres.status = OK THEN cres.json.list ELSE << >>
             issues_list_data == IF lres.status = OK THEN lres.json.list ELSE << >>
         IN  [data |-> [dict |-> [owner |-> o, repo |-> r,
                                  issue_title |-> issue_data.title,
                                  full_text |-> full_text_of(issue_data, comments_data),
                                  issues_list |-> issues_list_data,
                                  current_page |-> p]],
              error |-> None]

(***************************************************************************)
(* analyze_with_gemini                                                     *)
(***************************************************************************)
target_model_name == <<"gemini-2.5-flash">>

fallback_model_name == <<"gemini-2.0-flash">>

\* Lines 85-99: the f-string embeds issue_text between fixed instructions.
prompt_of(issue_text) ==
    <<"You are an expert Engineering Manager. ... Issue Data:\n">>
    \o issue_text \o <<"\n">>

Ch(c) == [ch |-> c]

Doc(v) == [doc |-> v]

\* str.replace(pat, ""): leftmost, non-overlapping occurrences are removed.
RECURSIVE remove_all(_, _)
remove_all(s, pat) ==
    IF Len(s) < Len(pat) THEN s
    ELSE IF SubSeq(s, 1, Len(pat)) = pat
    THEN remove_all(SubSeq(s, Len(pat) + 1, Len(s)), pat)
    ELSE <<Head(s)>> \o remove_all(Tail(s), pat)

is_space(t) == "ch" \in DOMAIN t /\ t.ch \in {" ", "\n"}

RECURSIVE lstrip(_)
lstrip(s) == IF s # << >> /\ is_space(Head(s)) THEN lstrip(Tail(s)) ELSE s

RECURSIVE rstrip_space(_)
rstrip_space(s) ==
    IF s # << >> /\ is_space(s[Len(s)])
    THEN rstrip_space(SubSeq(s, 1, Len(s) - 1)) ELSE s

strip(s) == rstrip_space(lstrip(s))

fence == <<Ch("BACKTICK"), Ch("BACKTICK"), Ch("BACKTICK")>>

fence_json == fence \o <<Ch("json")>>

\* Line 125.
clean_text_of(text) == strip(remove_all(remove_all(text, fence_json), fence))

\* json.dumps of a value: the characters of one JSON document.
dumps(v) == <<Doc(v)>>

\* json.loads: one JSON document, surrounding whitespace allowed.
loads(text) ==
    LET t == strip(text)
    IN  IF Len(t) = 1 /\ "doc" \in DOMAIN t[1]
        THEN [value |-> t[1].doc]
        ELSE IF t # << >> /\ "doc" \in DOMAIN t[1]
        THEN [raised |-> <<"Extra data">>]
        ELSE [raised |-> <<"Expecting value">>]

K(name) == Str(<<name>>)

Obj1(k, v) == [obj |-> [x \in {K(k)} |-> v]]

\* repr of a list of model names.
RECURSIVE repr_items(_)
repr_items(l) ==
    IF l = << >> THEN << >>
    ELSE <<"'">> \o Head(l).str \o <<"'">>
         \o (IF Len(l) > 1 THEN <<", ">> ELSE << >>) \o repr_items(Tail(l))

repr_list(l) == <<"[">> \o repr_items(l) \o <<"]">>

\* Lines 115-117: names of the listed models that support generateContent.
RECURSIVE supporting(_)
supporting(ms) ==
    IF ms = << >> THEN << >>
    ELSE (IF Head(ms).generateContent THEN <<Head(ms).name>> ELSE << >>)
         \o supporting(Tail(ms))

\* both_failed_json without json.dumps: the bare message is returned.
both_failed_message(available_models, e) ==
    <<Ch("Model failed. Fallback also failed. Error: ")>>

\* Lines 120-122.
both_failed_json(available_models, e) ==
    dumps(Obj1("error",
        Str(<<"Model ">> \o target_model_name \o <<" failed. Fallback ">>
            \o fallback_model_name \o <<" also failed. Available models: ">>
            \o repr_list(available_models) \o <<". Error: ">> \o e)))

\* Lines 124-128.
extract_json(resp) ==
    IF "raised" \in DOMAIN resp.text
    THEN dumps(Obj1("error", Str(<<"AI Parsing failed: ">> \o resp.text.raised)))
    ELSE clean_text_of(resp.text.chars)

(***************************************************************************)
(* render_dashboard: normalisation of the analyzer's text, lines 142-157   *)
(***************************************************************************)
schema_keys ==
    {K("summary"), K("type"), K("priority_score"), K("suggested_labels"),
     K("potential_impact")}

\* Lines 142-148.
safe_default ==
    [x \in schema_keys |->
        IF x = K("summary") THEN Str(<<"AI could not analyze this issue.">>)
        ELSE IF x = K("type") THEN K("other")
        ELSE IF x = K("priority_score") THEN [int |-> 0]
        ELSE IF x = K("suggested_labels") THEN [list |-> <<K("error")>>]
        ELSE K("Unknown")]

dict_set(d, k, v) == [x \in DOMAIN d \cup {k} |-> IF x = k THEN v ELSE d[x]]

\* dict_update as an assignment: the parsed object replaces the defaults.
dict_replace(d, o) == o

\* dict.update(other dict).
dict_update(d, o) ==
    [x \in DOMAIN d \cup DOMAIN o |-> IF x \in DOMAIN o THEN o[x] ELSE d[x]]

hashable(v) == ~("list" \in DOMAIN v \/ "obj" \in DOMAIN v)

\* dict.update(sequence) reads each element as a (key, value) pair.  In a
\* str element every atom is one character.  Elements that are JSON objects
\* are outside the explored documents.
pair_of(e) ==
    IF "list" \in DOMAIN e
    THEN IF Len(e.list) # 2
         THEN [raised |-> <<"dictionary update sequence element has length ",
                            ToString(Len(e.list)), "; 2 is required">>]
         ELSE IF ~hashable(e.list[1])
         THEN [raised |-> <<"unhashable type">>]
         ELSE [key |-> e.list[1], value |-> e.list[2]]
    ELSE IF "str" \in DOMAIN e
    THEN IF Len(e.str) # 2
         THEN [raised |-> <<"dictionary update sequence element has length ",
                            ToString(Len(e.str)), "; 2 is required">>]
         ELSE [key |-> Str(<<e.str[1]>>), value |-> Str(<<e.str[2]>>)]
    ELSE [raised |-> <<"cannot convert dictionary update sequence element to a sequence">>]

\* dict.update(sequence): pairs are stored one by one, so the pairs before a
\* bad element stay in the dict when the exception is raised.
RECURSIVE update_from_seq(_, _)
update_from_seq(d, l) ==
    IF l = << >> THEN [dict |-> d, raised |-> None]
    ELSE LET kv == pair_of(Head(l))
         IN  IF "raised" \in DOMAIN kv
             THEN [dict |-> d, raised |-> Str(kv.raised)]
             ELSE update_from_seq(dict_set(d, kv.key, kv.value), Tail(l))

\* Lines 156-157.
parse_failed(d, msg) ==
    dict_set(d, K("summary"), Str(<<"Error parsing AI response: ">> \o msg))

\* Lines 152-155 for a parsed JSON object.
merge_object(o) ==
    IF K("error") \in DOMAIN o
    THEN dict_set(safe_default, K("summary"),
                  Str(<<"AI Error: ">> \o format(o[K("error")])))
    ELSE dict_update(safe_default, o)

\* Lines 152-157 for a parsed JSON array.
merge_list(l) ==
    IF \E i \in 1..Len(l) : l[i] = K("error")
    THEN parse_failed(safe_default, <<"list indices must be integers or slices, not str">>)
    ELSE LET u == update_from_seq(safe_default, l)
         IN  IF IsNone(u.raised) THEN u.dict ELSE parse_failed(u.dict, u.raised.str)

\* Lines 152-157 for a parsed JSON string.
merge_str(s) ==
    IF find(s, "error", 1) # 0
    THEN parse_failed(safe_default, <<"string indices must be integers">>)
    ELSE IF s = << >> THEN safe_default
    ELSE parse_failed(safe_default,
             <<"dictionary update sequence element has length ", "1",
               "; 2 is required">>)

\* Lines 142-157.
normalize(ai_json) ==
    LET parsed == loads(ai_json)
    IN  IF "raised" \in DOMAIN parsed THEN parse_failed(safe_default, parsed.raised)
        ELSE IF "obj" \in DOMAIN parsed.value THEN merge_object(parsed.value.obj)
        ELSE IF "list" \in DOMAIN parsed.value THEN merge_list(parsed.value.list)
        ELSE IF "str" \in DOMAIN parsed.value THEN merge_str(parsed.value.str)
        ELSE parse_failed(safe_default, <<"argument is not iterable">>)

\* Lines 160-169: the context handed to dashboard.html.
dashboard_context(url, n, p, data, analysis) ==
    [repo_url |-> url,
     repo_name |-> data.owner \o <<"/">> \o data.repo,
     issue_number |-> n,
     issue_title |-> data.issue_title,
     issues_list |-> data.issues_list,
     analysis |-> analysis,
     page |-> p]

(***************************************************************************)
(* Inputs: what the client sends and what the two services answer.         *)
(***************************************************************************)
\* A repository URL as typed into the form: a name followed by any mix of
\* separators and names, or nothing at all.
UrlAtoms == {"/", "app"}

Urls == {<< >>} \cup {<<"acme">> \o t : t \in SeqsUpTo(UrlAtoms, MaxUrlLen)}

IssueNumbers == {7}

Pages == 1..MaxPage

\* str(e) of an exception raised by requests.get; an exception built without
\* arguments has the empty text.
ExcTexts == {<< >>, <<"Connection refused">>}

BadJson == [bad |-> <<"Expecting value">>]

Failed(status) == [status |-> status, json |-> [unread |-> TRUE]]

IssueResponses ==
    {[status |-> OK, json |-> j] :
        j \in {[obj |-> [title |-> K("T"), body |-> K("B")]],
               [obj |-> [title |-> None, body |-> None]],
               BadJson}}
    \cup {Failed(404)}

CommentsResponses ==
    {[status |-> OK, json |-> [list |-> cs]] :
        cs \in SeqsUpTo({[body |-> K("c")], [body |-> None]}, MaxComments)}
    \cup {[status |-> OK, json |-> BadJson], Failed(403)}

IssuesListResponses ==
    {[status |-> OK, json |-> [list |-> l]] :
        l \in SeqsUpTo({[number |-> 1]}, MaxIssues)}
    \cup {[status |-> OK, json |-> BadJson], Failed(403)}

Pair(k, v) == [list |-> <<K(k), v>>]

\* JSON documents a model may answer with.
Docs ==
    {[obj |-> [x \in schema_keys |->
                 IF x = K("summary") THEN K("S")
                 ELSE IF x = K("type") THEN K("bug")
                 ELSE IF x = K("priority_score") THEN [int |-> 3]
                 ELSE IF x = K("suggested_labels") THEN [list |-> <<K("ui")>>]
                 ELSE K("I")]],
     [obj |-> [x \in {K("type"), K("priority_score")} |->
                 IF x = K("type") THEN K("bug") ELSE [int |-> 4]]],
     [obj |-> [x \in {K("type"), K("priority_score")} |->
                 IF x = K("type") THEN K("banana") ELSE [int |-> 99]]],
     [obj |-> [x \in {K("type"), K("confidence")} |->
                 IF x = K("type") THEN K("question") ELSE [int |-> 9]]],
     [obj |-> [x \in {} |-> None]],
     Obj1("error", K("quota exceeded")),
     [obj |-> [x \in {K("error"), K("type")} |->
                 IF x = K("error") THEN K("quota exceeded") ELSE K("bug")]],
     [int |-> 42],
     None,
     K("hi"),
     Str(<< >>),
     Str(<<"fatal ", "error">>),
     [list |-> << >>],
     [list |-> <<K("error")>>],
     [list |-> <<Pair("type", K("bug"))>>],
     [list |-> <<Pair("type", K("bug")), [int |-> 5]>>],
     [list |-> <<[list |-> <<[list |-> << >>], [int |-> 2]>>]>>],
     [list |-> <<Str(<<"a", "b">>)>>]}

NL == Ch("\n")

\* Ways a model wraps (or fails to wrap) a JSON document in its answer.
Wrapped(d) ==
    {<<Doc(d)>>,
     fence_json \o <<NL, Doc(d), NL>> \o fence,
     fence \o <<Doc(d)>> \o fence,
     <<Ch(" "), Doc(d), NL>>,
     <<Ch("Here is the analysis:"), NL>> \o fence_json \o <<NL, Doc(d), NL>> \o fence,
     <<Doc(d), NL, Doc(d)>>}

ModelTexts ==
    {<<Doc(d)>> : d \in Docs}
    \cup Wrapped(Obj1("type", K("bug")))
    \cup {<< >>, <<Ch("I cannot help with that.")>>}

\* Outcome of GenerativeModel(name).generate_content(prompt).
GenerateOutcomes ==
    {[raised |-> <<"429 quota">>]}
    \cup {[text |-> [chars |-> t]] : t \in ModelTexts}
    \cup {[text |-> [raised |-> <<"response has no valid part">>]]}

ModelInfos ==
    {[name |-> K("models/gemini-pro"), generateContent |-> TRUE],
     [name |-> K("models/embedding"), generateContent |-> FALSE]}

(***************************************************************************)
(* The handlers, one action per stretch of code between two calls out.     *)
(***************************************************************************)
Init ==
    /\ pc = "start"
    /\ repo_url = None
    /\ issue_number = None
    /\ page = None
    /\ owner = None
    /\ repo = None
    /\ http_log = << >>
    /\ issue_res = None
    /\ comments_res = None
    /\ issues_list_res = None
    /\ fetch_ret = None
    /\ calls = << >>
    /\ response = None
    /\ primary_e = None
    /\ fallback_e = None
    /\ ai_response_json = None
    /\ safe_analysis = None
    /\ view = None

fetch_vars == <<owner, repo, http_log, issue_res, comments_res, issues_list_res, fetch_ret>>

gemini_vars == <<calls, response, primary_e, fallback_e, ai_response_json>>

request_vars == <<repo_url, issue_number, page>>

\* Lines 173-175.
read_root ==
    /\ pc = "start"
    /\ view' = [index |-> [error |-> None]]
    /\ pc' = "Index"
    /\ UNCHANGED <<request_vars, fetch_vars, gemini_vars, safe_analysis>>

\* Lines 177-180: page is 1.
analyze_post ==
    /\ pc = "start"
    /\ \E url \in Urls, n \in IssueNumbers :
        /\ repo_url' = Str(url)
        /\ issue_number' = [int |-> n]
        /\ page' = [int |-> 1]
    /\ pc' = "fetch_parse"
    /\ UNCHANGED <<fetch_vars, gemini_vars, safe_analysis, view>>

\* Lines 182-185.
analyze_get ==
    /\ pc = "start"
    /\ \E url \in Urls, n \in IssueNumbers, p \in Pages :
        /\ repo_url' = Str(url)
        /\ issue_number' = [int |-> n]
        /\ page' = [int |-> p]
    /\ pc' = "fetch_parse"
    /\ UNCHANGED <<fetch_vars, gemini_vars, safe_analysis, view>>

\* Lines 78-79: an exception inside fetch_github_data.
fetch_raised(msg) ==
    /\ fetch_ret' = [data |-> None, error |-> Str(msg)]
    /\ pc' = "fetch_returned"

\* Lines 134, 36-42.  GITHUB_TOKEN is None (line 26): no Authorization header.
fetch_parse ==
    /\ pc = "fetch_parse"
    /\ LET parsed == parse_repo_url(repo_url.str)
       IN  IF "raised" \in DOMAIN parsed
           THEN /\ fetch_raised(parsed.raised)
                /\ UNCHANGED <<owner, repo>>
           ELSE /\ owner' = Str(parsed.owner)
                /\ repo' = Str(parsed.repo)
                /\ pc' = "fetch_issue"
                /\ UNCHANGED fetch_ret
    /\ UNCHANGED <<request_vars, http_log, issue_res, comments_res, issues_list_res,
                   gemini_vars, safe_analysis, view>>

\* Lines 45-46.
fetch_issue ==
    /\ pc = "fetch_issue"
    /\ http_log' = Append(http_log, issue_url(owner.str, repo.str, issue_number.int))
    /\ \/ \E res \in IssueResponses :
            /\ issue_res' = res
            /\ pc' = "fetch_comments"
            /\ UNCHANGED fetch_ret
       \/ \E e \in ExcTexts :
            /\ fetch_raised(e)
            /\ UNCHANGED issue_res
    /\ UNCHANGED <<request_vars, owner, repo, comments_res, issues_list_res,
                   gemini_vars, safe_analysis, view>>

\* Lines 49-50.
fetch_comments ==
    /\ pc = "fetch_comments"
    /\ http_log' = Append(http_log, comments_url(owner.str, repo.str, issue_number.int))
    /\ \/ \E res \in CommentsResponses :
            /\ comments_res' = res
            /\ pc' = "fetch_issues_list"
            /\ UNCHANGED fetch_ret
       \/ \E e \in ExcTexts :
            /\ fetch_raised(e)
            /\ UNCHANGED comments_res
    /\ UNCHANGED <<request_vars, owner, repo, issue_res, issues_list_res,
                   gemini_vars, safe_analysis, view>>

\* Lines 54-79.
fetch_issues_list ==
    /\ pc = "fetch_issues_list"
    /\ http_log' = Append(http_log, issues_list_url(owner.str, repo.str, page.int))
    /\ \/ \E res \in IssuesListResponses :
            /\ issues_list_res' = res
            /\ fetch_ret' = fetch_result(issue_res, comments_res, res,
                                         owner.str, repo.str, page.int)
            /\ pc' = "fetch_returned"
       \/ \E e \in ExcTexts :
            /\ fetch_raised(e)
            /\ UNCHANGED issues_list_res
    /\ UNCHANGED <<request_vars, owner, repo, issue_res, comments_res,
                   gemini_vars, safe_analysis, view>>

\* Lines 134-140: `if error:` and then data["full_text"], which raises
\* TypeError when data is None.
render_check ==
    /\ pc = "fetch_returned"
    /\ IF truthy(fetch_ret.error)
       THEN /\ view' = [index |-> [error |-> Str(<<"Could not find issue: ">>
                                                \o format(fetch_ret.error))]]
            /\ pc' = "FetchFailed"
       ELSE IF IsNone(fetch_ret.data)
       THEN /\ view' = [raised |-> <<"'NoneType' object is not subscriptable">>]
            /\ pc' = "Raised"
       ELSE /\ pc' = "primary"
            /\ UNCHANGED view
    /\ UNCHANGED <<request_vars, fetch_vars, gemini_vars, safe_analysis>>

\* gemini_primary with the fallback block run after a successful call too.
gemini_primary_falls_through ==
    /\ pc = "primary"
    /\ calls' = Append(calls, [model |-> target_model_name,
                               prompt |-> prompt_of(fetch_ret.data.dict.full_text)])
    /\ \E out \in GenerateOutcomes :
        IF "raised" \in DOMAIN out
        THEN /\ primary_e' = Str(out.raised)
             /\ UNCHANGED <<response, ai_response_json>>
        ELSE /\ response' = [model |-> target_model_name, text |-> out.text]
             /\ ai_response_json' = [chars |-> extract_json(response')]
             /\ UNCHANGED primary_e
    /\ pc' = "fallback"
    /\ UNCHANGED <<request_vars, fetch_vars, fallback_e, safe_analysis, view>>

\* Lines 101-105 and, when the call returns, 124-128.
gemini_primary ==
    /\ pc = "primary"
    /\ calls' = Append(calls, [model |-> target_model_name,
                               prompt |-> prompt_of(fetch_ret.data.dict.full_text)])
    /\ \E out \in GenerateOutcomes :
        IF "raised" \in DOMAIN out
        THEN /\ primary_e' = Str(out.raised)
             /\ pc' = "fallback"
             /\ UNCHANGED <<response, ai_response_json>>
        ELSE /\ response' = [model |-> target_model_name, text |-> out.text]
             /\ ai_response_json' = [chars |-> extract_json(response')]
             /\ pc' = "analyzed"
             /\ UNCHANGED primary_e
    /\ UNCHANGED <<request_vars, fetch_vars, fallback_e, safe_analysis, view>>

\* Lines 107-112 and, when the call returns, 124-128.
gemini_fallback ==
    /\ pc = "fallback"
    /\ calls' = Append(calls, [model |-> fallback_model_name,
                               prompt |-> prompt_of(fetch_ret.data.dict.full_text)])
    /\ \E out \in GenerateOutcomes :
        IF "raised" \in DOMAIN out
        THEN /\ fallback_e' = Str(out.raised)
             /\ pc' = "list_models"
             /\ UNCHANGED <<response, ai_response_json>>
        ELSE /\ response' = [model |-> fallback_model_name, text |-> out.text]
             /\ ai_response_json' = [chars |-> extract_json(response')]
             /\ pc' = "analyzed"
             /\ UNCHANGED fallback_e
    /\ UNCHANGED <<request_vars, fetch_vars, primary_e, safe_analysis, view>>

\* Lines 113-122: list_models may raise after any number of models; the
\* names collected so far are reported either way.
gemini_list_models ==
    /\ pc = "list_models"
    /\ \E ms \in SeqsUpTo(ModelInfos, MaxModels) :
        ai_response_json' = [chars |-> both_failed_json(supporting(ms), fallback_e.str)]
    /\ pc' = "analyzed"
    /\ UNCHANGED <<request_vars, fetch_vars, calls, response, primary_e, fallback_e,
                   safe_analysis, view>>

\* render_finish with json.loads outside the try block.
render_finish_unguarded ==
    /\ pc = "analyzed"
    /\ IF "raised" \in DOMAIN loads(ai_response_json.chars)
       THEN /\ view' = [raised |-> loads(ai_response_json.chars).raised]
            /\ pc' = "Raised"
            /\ UNCHANGED safe_analysis
       ELSE /\ safe_analysis' = normalize(ai_response_json.chars)
            /\ view' = [dashboard |->
                         dashboard_context(repo_url.str, issue_number.int, page.int,
                                           fetch_ret.data.dict, safe_analysis')]
            /\ pc' = "Rendered"
    /\ UNCHANGED <<request_vars, fetch_vars, gemini_vars>>

\* Lines 142-169.
render_finish ==
    /\ pc = "analyzed"
    /\ safe_analysis' = normalize(ai_response_json.chars)
    /\ view' = [dashboard |-> dashboard_context(repo_url.str, issue_number.int, page.int,
                                                fetch_ret.data.dict, safe_analysis')]
    /\ pc' = "Rendered"
    /\ UNCHANGED <<request_vars, fetch_vars, gemini_vars>>

Next ==
    \/ read_root
    \/ analyze_post
    \/ analyze_get
    \/ fetch_parse
    \/ fetch_issue
    \/ fetch_comments
    \/ fetch_issues_list
    \/ render_check
    \/ gemini_primary
    \/ gemini_fallback
    \/ gemini_list_models
    \/ render_finish

Spec == Init /\ [][Next]_vars

\* The handler is one sequential coroutine: once a call out has answered or
\* raised, the code after it runs.  No timeout is set on the calls, so that
\* every call does answer or raise is assumed here.
FairSpec == Spec /\ WF_vars(Next)

(***************************************************************************)
(* Properties.                                                             *)
(***************************************************************************)
FetchReturned == "data" \in DOMAIN fetch_ret

FetchSucceeded == FetchReturned /\ ~IsNone(fetch_ret.data)

FetchReportedFailure == FetchReturned /\ IsNone(fetch_ret.data)

IssueAnswered == "status" \in DOMAIN issue_res

IssueDetailOk ==
    IssueAnswered /\ issue_res.status = OK /\ "obj" \in DOMAIN issue_res.json

AnalyzerReturned == "chars" \in DOMAIN ai_response_json

BothModelsFailed == ~IsNone(fallback_e)

TextNotExtractable ==
    "text" \in DOMAIN response /\ "raised" \in DOMAIN response.text

ValidJson(text) == "value" \in DOMAIN loads(text)

Normalized == pc = "Rendered"

ParsedObject ==
    /\ ValidJson(ai_response_json.chars)
    /\ "obj" \in DOMAIN loads(ai_response_json.chars).value

Parsed == loads(ai_response_json.chars).value

\* C1: whenever fetch_github_data returns no data record, the request ends
\* in FetchFailed with the error view, no generate_content call was made and
\* no exception escaped, whatever the error text is.
C1_FetchFailureRendersErrorView ==
    (FetchReportedFailure /\ pc # "fetch_returned")
        => /\ pc = "FetchFailed"
           /\ "index" \in DOMAIN view
           /\ "str" \in DOMAIN view.index.error
           /\ calls = << >>

\* C2: when the issue-detail request answered 200 with an issue, no failure
\* of the comments or issue-list request makes fetch_github_data return an
\* error, so the error view is reached only when the issue-detail request
\* itself failed.
C2_OnlyIssueDetailFailureIsFatal ==
    /\ (FetchReturned /\ IssueDetailOk) => FetchSucceeded
    /\ (pc = "FetchFailed" /\ IssueAnswered) => ~IssueDetailOk

\* C3 as claimed: analyze_with_gemini never raises and whatever it returns
\* is valid JSON text.
C3_AlwaysValidJson ==
    /\ calls # << >> => pc # "Raised"
    /\ AnalyzerReturned => ValidJson(ai_response_json.chars)

\* C3 amended: analyze_with_gemini never raises; when both invocations raised
\* or the response text cannot be extracted it returns a valid JSON object
\* with an `error` key; when a model answered, it returns the answer with the
\* fence markers removed and the surrounding whitespace trimmed, whether or
\* not that is JSON.
C3_ValidJsonOnFailurePaths ==
    /\ calls # << >> => pc # "Raised"
    /\ (AnalyzerReturned /\ (BothModelsFailed \/ TextNotExtractable))
        => /\ ParsedObject
           /\ K("error") \in DOMAIN Parsed.obj
    /\ (AnalyzerReturned /\ ~BothModelsFailed /\ ~TextNotExtractable)
        => ai_response_json.chars = clean_text_of(response.text.chars)

C3_Witness ==
    /\ pc = "analyzed"
    /\ BothModelsFailed
    /\ ParsedObject

\* C4: the fallback model is invoked exactly when the primary invocation
\* raised, once, after the primary and with the same prompt; when it answers,
\* the value returned is computed from its response (lines 124-128), never
\* from the primary's; at most two invocations are made.
C4_FallbackOnlyAfterPrimaryFailure ==
    /\ Len(calls) <= 2
    /\ Len(calls) >= 1 => calls[1].model = target_model_name
    /\ Len(calls) = 2
        => /\ calls[2].model = fallback_model_name
           /\ calls[2].prompt = calls[1].prompt
           /\ ~IsNone(primary_e)
    /\ (~IsNone(primary_e) /\ pc # "fallback") => Len(calls) = 2
    /\ (Len(calls) = 2 /\ ~BothModelsFailed /\ AnalyzerReturned)
        => /\ response.model = fallback_model_name
           /\ ai_response_json.chars = extract_json(response)

C4_Witness ==
    /\ pc = "analyzed"
    /\ Len(calls) = 2
    /\ ~BothModelsFailed
    /\ "text" \in DOMAIN response
    /\ "chars" \in DOMAIN response.text

\* C5: once fetch_github_data has returned a data record, no failure state
\* is entered and the request reaches Rendered with a dashboard view-model,
\* whatever the analyzer returns.
C5_FetchedAlwaysRenders ==
    /\ [](FetchSucceeded => pc \notin {"FetchFailed", "Raised"})
    /\ (FetchSucceeded ~> (pc = "Rendered" /\ "dashboard" \in DOMAIN view))

C5_Witness ==
    /\ pc = "Rendered"
    /\ "dashboard" \in DOMAIN view
    /\ ValidJson(ai_response_json.chars)
    /\ "list" \in DOMAIN Parsed

SummaryHead == Head(safe_analysis[K("summary")].str)

\* The three ways normalization degrades; a non-object counts as unusable
\* when the summary reports the parse error.
Degraded ==
    \/ ~ValidJson(ai_response_json.chars)
    \/ ~ParsedObject /\ SummaryHead = "Error parsing AI response: "
    \/ ParsedObject /\ K("error") \in DOMAIN Parsed.obj

\* C6: whenever normalization degrades (text that is not JSON, JSON that is
\* not an object, an object with an `error` key), the result equals
\* SafeDefault in every field but summary, and for an `error` key the summary
\* is "AI Error: " followed by the error value.
C6_DegradedKeepsSafeDefault ==
    (Normalized /\ Degraded)
        => /\ \A k \in schema_keys \ {K("summary")} :
                safe_analysis[k] = safe_default[k]
           /\ (ParsedObject /\ K("error") \in DOMAIN Parsed.obj)
                => safe_analysis[K("summary")]
                     = Str(<<"AI Error: ">> \o format(Parsed.obj[K("error")]))

\* C7 as claimed: for a parsed object without `error`, the result has exactly
\* the five schema fields, each taken from the object when present and from
\* SafeDefault otherwise.
C7_OnlySchemaFields ==
    (Normalized /\ ParsedObject /\ K("error") \notin DOMAIN Parsed.obj)
        => /\ DOMAIN safe_analysis = schema_keys
           /\ \A k \in schema_keys :
                safe_analysis[k] =
                    IF k \in DOMAIN Parsed.obj THEN Parsed.obj[k] ELSE safe_default[k]

\* C7 amended: for a parsed object without `error`, the result is SafeDefault
\* overridden by every key of the object: missing schema fields keep their
\* SafeDefault value, and keys outside the schema are copied into the result
\* as well.
C7_ShallowMergeKeepsAllKeys ==
    (Normalized /\ ParsedObject /\ K("error") \notin DOMAIN Parsed.obj)
        => /\ DOMAIN safe_analysis = schema_keys \cup DOMAIN Parsed.obj
           /\ \A k \in DOMAIN safe_analysis :
                safe_analysis[k] =
                    IF k \in DOMAIN Parsed.obj THEN Parsed.obj[k] ELSE safe_default[k]

C7_Witness ==
    /\ Normalized
    /\ ParsedObject
    /\ K("confidence") \in DOMAIN Parsed.obj
    /\ K("summary") \notin DOMAIN Parsed.obj

TriageTypes == {K("bug"), K("feature_request"), K("documentation"), K("question"), K("other")}

\* C8: in every dashboard view-model analysis.type is one of the five types
\* and analysis.priority_score is an integer in 0..5.
C8_TypeAndPriorityInRange ==
    "dashboard" \in DOMAIN view
        => /\ view.dashboard.analysis[K("type")] \in TriageTypes
           /\ "int" \in DOMAIN view.dashboard.analysis[K("priority_score")]
           /\ view.dashboard.analysis[K("priority_score")].int \in 0..5

\* C9: whenever the issue-detail request answers a status other than 200,
\* fetch_github_data returns no data and an error carrying that status,
\* whatever happens to the comments and issue-list requests.
C9_Non200CarriesStatus ==
    (FetchReturned /\ IssueAnswered /\ issue_res.status # OK)
        => /\ IsNone(fetch_ret.data)
           /\ "str" \in DOMAIN fetch_ret.error
           /\ find(fetch_ret.error.str, ToString(issue_res.status), 1) # 0

Malformed(url) ==
    LET parts == split(rstrip(url, "/"), "/")
    IN  \/ Len(parts) < 2
        \/ parts[Len(parts) - 1] = << >>
        \/ parts[Len(parts)] = << >>

\* C10: a successful fetch result has non-empty owner and repo, and a
\* repo_url whose last two segments are not both present and non-empty gives
\* an error, never a data record, with no HTTP response accepted for it.
C10_OwnerRepoNonEmpty ==
    /\ FetchSucceeded
        => /\ fetch_ret.data.dict.owner # << >>
           /\ fetch_ret.data.dict.repo # << >>
    /\ ("str" \in DOMAIN repo_url /\ Malformed(repo_url.str))
        => /\ ~IssueAnswered
           /\ IsNone(comments_res)
           /\ IsNone(issues_list_res)
           /\ ~FetchSucceeded

====
